---- MODULE Spec2Model ----
(***************************************************************************)
(* Event router and delayed-escalation scheduler of automation_backend.    *)
(*                                                                         *)
(* One handler invocation is modelled at a time (variable flow): the four  *)
(* handlers keep all their state in closure locals and share no mutable    *)
(* state (webhook.controller.ts declares only constants at module level).  *)
(* The setTimeout callbacks registered by handleJiraEvent outlive their    *)
(* invocation and are kept in jobs; they interleave freely with the steps  *)
(* of later invocations.                                                   *)
(*                                                                         *)
(* Every await of the source is one step of the model.  The step that      *)
(* resumes after an await draws the outcome of the awaited outbound call   *)
(* (success with a value, or failure) from a small set, records it in the  *)
(* trace, and runs the handler up to its next await.                       *)
(*                                                                         *)
(* Text that the code processes (toLowerCase, includes, match, matchAll)   *)
(* is a sequence of one-character strings; identifiers that the code only  *)
(* passes along or compares whole (channel ids, intents, event types) are  *)
(* strings.                                                                *)
(***************************************************************************)
EXTENDS Integers, Sequences, FiniteSets, TLC

VARIABLES
    flow,   \* the handler invocation in progress or last finished
    jobs    \* the timers registered by setTimeout, in registration order

vars == <<flow, jobs>>

----------------------------------------------------------------------------
(* Bounds *)

\* Largest number of mentions in one inbound comment body.
MaxMentions == 2

\* Largest number of timers held at once (registration is refused beyond it).
MaxJobs == 2

----------------------------------------------------------------------------
(* JavaScript values *)

\* undefined, where a text is expected (a one-element sequence no text equals).
Undefined == <<"undefined">>

\* undefined, where an object is expected.
NoObject == [undefined |-> TRUE]

\* Truthiness of a string-or-undefined value: !v is true for undefined and "".
Truthy(v) == v # Undefined /\ v # <<>>

UpperCase == <<"A","B","C","D","E","F","G","H","I","J","K","L","M",
               "N","O","P","Q","R","S","T","U","V","W","X","Y","Z">>
LowerCase == <<"a","b","c","d","e","f","g","h","i","j","k","l","m",
               "n","o","p","q","r","s","t","u","v","w","x","y","z">>
Digits == {"0","1","2","3","4","5","6","7","8","9"}

IsUpper(c) == \E i \in 1..Len(UpperCase) : UpperCase[i] = c

LowerChar(c) ==
    IF IsUpper(c)
    THEN LowerCase[CHOOSE i \in 1..Len(UpperCase) : UpperCase[i] = c]
    ELSE c

\* String.prototype.toLowerCase
ToLowerCase(t) == [i \in 1..Len(t) |-> LowerChar(t[i])]

\* String.prototype.includes
Includes(t, pat) ==
    \E i \in 1..(Len(t) - Len(pat) + 1) : SubSeq(t, i, i + Len(pat) - 1) = pat

\* String.prototype.substring(0, n)
Substring0(t, n) == SubSeq(t, 1, IF Len(t) < n THEN Len(t) ELSE n)

----------------------------------------------------------------------------
(* The trace of one invocation: responses, outbound calls, log entries *)

Respond(status, body) == [op |-> "respond", args |-> <<status, body>>, res |-> "sent"]
Call(op, args)        == [op |-> op, args |-> args, res |-> "pending"]
LogError(where)       == [op |-> "console.error", args |-> <<where>>, res |-> "logged"]

\* The awaited call (the last entry of the trace) settles with outcome r.
Settle(tr, r) == [tr EXCEPT ![Len(tr)].res = r]

OutboundOps == {"parseBugReport", "analyzeTranscript", "createTicket",
                "updateTicketStatus", "addComment", "getTicketAssignee",
                "getUserDetailsById", "searchJiraIssues", "jiraApiClient.get",
                "postMessage", "users.lookupByEmail", "chat.postMessage"}

IsCall(e)     == e.op \in OutboundOps
IsResponse(e) == e.op = "respond"

Idle == [handler |-> "none", req |-> NoObject, pc |-> "idle", trace |-> <<>>,
         loc |-> NoObject]

----------------------------------------------------------------------------
(* Fixed identifiers of the source *)

DefaultProject == <<"K","A","N">>

----------------------------------------------------------------------------
(* Chat-message handler *)

BugWord    == <<"b","u","g">>
BrokenWord == <<"b","r","o","k","e","n">>

BotId      == <<"B","0","1">>
Channel1   == "C-origin"

\* What model.generateContent gives parseBugReport: the call fails, or text
\* that does not parse as JSON, or an object with some of the four fields.
GeminiBugReplies ==
    { [ok |-> FALSE, parses |-> FALSE, json |-> NoObject],
      [ok |-> TRUE,  parses |-> FALSE, json |-> NoObject] }
    \cup
    { [ok |-> TRUE, parses |-> TRUE,
       json |-> [summary |-> s, description |-> d, projectKey |-> p, issueType |-> t]] :
        s \in {Undefined, <<"s","u","m">>},
        d \in {<<>>, <<"d","e","s","c">>},
        p \in {Undefined, <<"F","E">>, DefaultProject},
        t \in {Undefined, <<"T","a","s","k">>, <<"B","u","g">>} }

\* Faulty variant: a response without projectKey is returned, the caller
\* sets the project anyway.
ParseBugReport_ProjectOptional(reply) ==
    IF ~reply.ok \/ ~reply.parses
    THEN [threw |-> TRUE, value |-> NoObject]
    ELSE IF    ~Truthy(reply.json.summary) \/ ~Truthy(reply.json.description)
            \/ ~Truthy(reply.json.issueType)
         THEN [threw |-> TRUE, value |-> NoObject]
         ELSE [threw |-> FALSE, value |-> reply.json]

\* parseBugReport: the try block and its catch.
ParseBugReport(reply) ==
    IF ~reply.ok \/ ~reply.parses
    THEN [threw |-> TRUE, value |-> NoObject]
    ELSE IF    ~Truthy(reply.json.summary) \/ ~Truthy(reply.json.description)
            \/ ~Truthy(reply.json.projectKey) \/ ~Truthy(reply.json.issueType)
         THEN [threw |-> TRUE, value |-> NoObject]
         ELSE [threw |-> FALSE, value |-> reply.json]

\* The keys the tracker may give a new ticket.
NewTicketKeys == { <<"K","A","N","-","7">>, <<"K","A","N","-","8">> }

\* Faulty variant: the classifier's projectKey is kept.
OverrideProjectKey_Kept(bugDetails) == bugDetails

\* bugDetails.projectKey = "KAN"
OverrideProjectKey(bugDetails) == [bugDetails EXCEPT !.projectKey = DefaultProject]

\* Faulty variant: the bot_id test is left out.
IsUserMessage_NoBotCheck(event) == event # NoObject /\ event.type = "message"

\* event && event.type === 'message' && !event.bot_id
IsUserMessage(event) ==
    event # NoObject /\ event.type = "message" /\ ~Truthy(event.bot_id)

\* text.includes('bug') || text.includes('broken'), text = event.text.toLowerCase()
MentionsBug(text) ==
    Includes(ToLowerCase(text), BugWord) \/ Includes(ToLowerCase(text), BrokenWord)

ConfirmationText(key, summary) ==
    <<"B","u","g"," ","r","e","p","o","r","t","e","d","!"," ","*">> \o key
        \o <<"*"," ">> \o summary

FailureText == <<"F","a","i","l","e","d"," ","t","o"," ","c","r","e","a","t","e">>

\* Inbound message texts: "... is broken", "BUG in prod", "all good", and the
\* handler's own confirmation and failure notice as the chat platform
\* delivers them back.
SlackTexts ==
    { <<"i","s"," ","b","r","o","k","e","n">>,
      <<"B","U","G"," ","i","n"," ","p","r","o","d">>,
      <<"a","l","l"," ","g","o","o","d">>,
      ConfirmationText(<<"K","A","N","-","7">>, <<"s","u","m">>),
      FailureText }

SlackEvents ==
    { [type |-> ty, bot_id |-> b, text |-> tx, channel |-> Channel1] :
        ty \in {"message", "reaction_added"}, b \in {Undefined, BotId},
        tx \in SlackTexts \cup {Undefined} }

SlackBodies ==
    { [type |-> "url_verification", challenge |-> <<"c","h">>, event |-> NoObject],
      [type |-> "event_callback", challenge |-> Undefined, event |-> NoObject] }
    \cup { [type |-> "event_callback", challenge |-> Undefined, event |-> e] :
             e \in SlackEvents }

\* Faulty variant: the acknowledgment is left out.
SlackAck_Missing(tr) == tr

\* res.status(200).send('OK')
SlackAck(tr) == Append(tr, Respond(200, <<"O","K">>))

\* The catch block of handleSlackEvent: log, then post the failure notice.
SlackCatch(f, tr) ==
    [f EXCEPT !.pc = "slack:notice",
              !.trace = tr \o << LogError("slack"),
                                 Call("postMessage", <<f.req.event.channel, FailureText>>) >>]

\* handleSlackEvent up to its first await.
HandleSlackEvent ==
    /\ flow.pc = "idle"
    /\ \E body \in SlackBodies :
         LET f0 == [handler |-> "slack", req |-> body, pc |-> "done",
                    trace |-> <<>>, loc |-> NoObject]
         IN  flow' =
               IF body.type = "url_verification"
               THEN [f0 EXCEPT !.trace = <<Respond(200, body.challenge)>>]
               ELSE LET acked == [f0 EXCEPT !.trace = SlackAck(<<>>)]
                    IN  IF ~IsUserMessage(body.event) THEN acked
                        ELSE IF body.event.text = Undefined
                             THEN [acked EXCEPT !.pc = "unhandled"]
                        ELSE IF ~MentionsBug(body.event.text) THEN acked
                        ELSE [acked EXCEPT
                                !.pc = "slack:parse",
                                !.trace = Append(@, Call("parseBugReport",
                                                         <<body.event.text>>))]
    /\ UNCHANGED jobs

\* await parseBugReport(event.text) settles.  The text the model gave is kept
\* in loc.reply, for the record only: the handler never sees it.
SlackParseReturns ==
    /\ flow.pc = "slack:parse"
    /\ \E reply \in GeminiBugReplies :
         LET r == ParseBugReport(reply)
         IN  flow' =
               IF r.threw
               THEN SlackCatch([flow EXCEPT !.loc = [reply |-> reply]],
                               Settle(flow.trace, "fail"))
               ELSE LET bugDetails == OverrideProjectKey(r.value)
                    IN  [flow EXCEPT
                           !.pc = "slack:create",
                           !.loc = [reply |-> reply, parsed |-> r.value,
                                    bugDetails |-> bugDetails],
                           !.trace = Append(Settle(@, "ok"),
                                            Call("createTicket", <<bugDetails>>))]
    /\ UNCHANGED jobs

\* await createTicket(bugDetails) settles.
SlackCreateReturns ==
    /\ flow.pc = "slack:create"
    /\ \/ flow' = SlackCatch(flow, Settle(flow.trace, "fail"))
       \/ \E key \in NewTicketKeys :
            flow' = [flow EXCEPT
                       !.pc = "slack:confirm",
                       !.loc = [reply |-> flow.loc.reply, parsed |-> flow.loc.parsed,
                                bugDetails |-> flow.loc.bugDetails, ticketKey |-> key],
                       !.trace = Append(Settle(@, "ok"),
                                        Call("postMessage",
                                             <<flow.req.event.channel,
                                               ConfirmationText(key,
                                                  flow.loc.bugDetails.summary)>>))]
    /\ UNCHANGED jobs

\* await postMessage(event.channel, confirmation) settles.
SlackConfirmReturns ==
    /\ flow.pc = "slack:confirm"
    /\ \/ flow' = [flow EXCEPT !.pc = "done", !.trace = Settle(@, "ok")]
       \/ flow' = SlackCatch(flow, Settle(flow.trace, "fail"))
    /\ UNCHANGED jobs

\* await postMessage(event.channel, failure notice) settles, inside the catch
\* block: its failure rejects the promise handleSlackEvent returned.
SlackNoticeReturns ==
    /\ flow.pc = "slack:notice"
    /\ \/ flow' = [flow EXCEPT !.pc = "done", !.trace = Settle(@, "ok")]
       \/ flow' = [flow EXCEPT !.pc = "unhandled", !.trace = Settle(@, "fail")]
    /\ UNCHANGED jobs

----------------------------------------------------------------------------
(* Source-control handler *)

\* process.env.GITHUB_WEBHOOK_SECRET, and a secret the server does not hold.
GITHUB_WEBHOOK_SECRET == "server-secret"
OtherSecret           == "other-secret"

InProgress == <<"I","n"," ","P","r","o","g","r","e","s","s">>
Done       == <<"D","o","n","e">>

SupportChannelId == "C0A1D39J9M3"

RefWithKey   == <<"f","/","K","A","N","-","4","2","-","x">>
RefPlain     == <<"m","a","i","n">>
HeadWithKey  == <<"A","B","-","1">>
HeadPlain    == <<"d","e","v">>
TitleWithKey == <<"F","i","x"," ","X","Y","-","9"," ","n","o","w">>
TitlePlain   == <<"f","i","x"," ","i","t">>
PrUrl        == <<"u","r","l">>

PullRequest(head, title, merged) ==
    [head |-> head, title |-> title, merged |-> merged, html_url |-> PrUrl]

Payload(ref, refType, action, pr) ==
    [ref |-> ref, ref_type |-> refType, action |-> action, pull_request |-> pr]

\* The x-github-event header and the parsed payload of the inbound events.
GithubEvents ==
    { <<"create", Payload(RefWithKey, "branch", Undefined, NoObject)>>,
      <<"create", Payload(RefWithKey, "tag", Undefined, NoObject)>>,
      <<"create", Payload(RefPlain, "branch", Undefined, NoObject)>>,
      <<"push",   Payload(RefWithKey, "branch", Undefined, NoObject)>>,
      <<"pull_request", Payload(Undefined, "none", <<"c","l","o","s","e","d">>,
            PullRequest([ref |-> HeadWithKey], TitlePlain, TRUE))>>,
      <<"pull_request", Payload(Undefined, "none", <<"c","l","o","s","e","d">>,
            PullRequest([ref |-> HeadPlain], TitleWithKey, TRUE))>>,
      <<"pull_request", Payload(Undefined, "none", <<"c","l","o","s","e","d">>,
            PullRequest([ref |-> HeadWithKey], TitleWithKey, TRUE))>>,
      <<"pull_request", Payload(RefWithKey, "none", <<"c","l","o","s","e","d">>,
            PullRequest([ref |-> HeadPlain], TitlePlain, TRUE))>>,
      <<"pull_request", Payload(Undefined, "none", <<"c","l","o","s","e","d">>,
            PullRequest([ref |-> HeadPlain], TitlePlain, TRUE))>>,
      <<"pull_request", Payload(Undefined, "none", <<"c","l","o","s","e","d">>,
            PullRequest([ref |-> HeadWithKey], TitlePlain, FALSE))>>,
      <<"pull_request", Payload(Undefined, "none", <<"o","p","e","n","e","d">>,
            PullRequest([ref |-> HeadWithKey], TitlePlain, FALSE))>>,
      <<"pull_request", Payload(Undefined, "none", <<"c","l","o","s","e","d">>,
            PullRequest(NoObject, TitleWithKey, TRUE))>>,
      <<"pull_request", Payload(RefWithKey, "none", <<"c","l","o","s","e","d">>,
            NoObject)>> }

\* The bytes of a request body: the payload's JSON text with pad bytes of
\* insignificant white space.  JSON.parse drops the white space;
\* JSON.stringify writes none.
RawBody(pad, payload) == [pad |-> pad, payload |-> payload]
JsonParse(raw)         == raw.payload
JsonStringify(payload) == RawBody(0, payload)

Pads == {0, 1}

\* The length of 'sha256=' + 64 hex digits.
DigestLen == 71

\* A header value or buffer: its byte length and its content.  The keyed hash
\* is a term over its key and message: two digests are equal exactly when
\* they were computed from the same secret over the same bytes.
HexHmacSha256(secret, raw) == <<"hmac", secret, raw>>

\* 'sha256=' + hmac.update(rawBody).digest('hex')
DigestOf(secret, raw) ==
    [len |-> DigestLen, bytes |-> <<"sha256=">> \o HexHmacSha256(secret, raw)]

\* Faulty variant: the handler signs the parsed payload written out again.
SignedBytes_Reserialized(req) == JsonStringify(req.body)

\* The bytes the handler signs: (req as any).rawBody.
SignedBytes(req) == req.rawBody

\* Header values that are no digest: too short, too long, right length.
Garbage(n) == [len |-> n, bytes |-> <<"garbage", "", "", NoObject>>]

\* What a sender may put in x-hub-signature-256 for a body.
SignatureHeaders(raw) ==
    { NoObject,
      DigestOf(GITHUB_WEBHOOK_SECRET, raw),
      DigestOf(GITHUB_WEBHOOK_SECRET, RawBody(1 - raw.pad, raw.payload)),
      DigestOf(OtherSecret, raw),
      Garbage(DigestLen), Garbage(DigestLen - 1), Garbage(DigestLen + 1) }

GithubRequestsFor(eventType, raw) ==
    { [signature |-> sig, eventType |-> eventType, rawBody |-> raw,
       body |-> JsonParse(raw)] : sig \in SignatureHeaders(raw) }

GithubRequests ==
    UNION { GithubRequestsFor(ev[1], RawBody(pad, ev[2])) :
              ev \in GithubEvents, pad \in Pads }

\* crypto.timingSafeEqual: throws when the byte lengths differ.
TimingSafeEqual(a, b) ==
    IF a.len # b.len
    THEN [threw |-> TRUE,  equal |-> FALSE]
    ELSE [threw |-> FALSE, equal |-> a.bytes = b.bytes]

\* Faulty variant: a request without the header skips the check.
VerifySignature_MissingHeaderPasses(req) ==
    LET digest == DigestOf(GITHUB_WEBHOOK_SECRET, req.rawBody)
    IN  IF req.signature = NoObject THEN "ok"
        ELSE LET c == TimingSafeEqual(req.signature, digest)
             IN  IF c.threw THEN "throws"
                 ELSE IF c.equal THEN "ok" ELSE "unauthorized"

\* The outcome of the signature check of handleGithubEvent:
\* "ok", "unauthorized" (the 401 return) or "throws".
VerifySignature(req) ==
    LET digest == DigestOf(GITHUB_WEBHOOK_SECRET, SignedBytes(req))
    IN  IF req.signature = NoObject THEN "unauthorized"
        ELSE LET c == TimingSafeEqual(req.signature, digest)
             IN  IF c.threw THEN "throws"
                 ELSE IF c.equal THEN "ok" ELSE "unauthorized"

RECURSIVE UpperRun(_, _)
UpperRun(t, i) ==
    IF i <= Len(t) /\ IsUpper(t[i]) THEN 1 + UpperRun(t, i + 1) ELSE 0

RECURSIVE DigitRun(_, _)
DigitRun(t, i) ==
    IF i <= Len(t) /\ t[i] \in Digits THEN 1 + DigitRun(t, i + 1) ELSE 0

\* The length of the match of /([A-Z]{2,}-\d+)/ that starts at i, 0 if none.
KeyMatchLen(t, i) ==
    LET u == UpperRun(t, i)
        d == DigitRun(t, i + u + 1)
    IN  IF u >= 2 /\ i + u <= Len(t) /\ t[i + u] = "-" /\ d >= 1
        THEN u + 1 + d ELSE 0

\* extractJiraKey: the leftmost match, or null.
ExtractJiraKey(t) ==
    IF \E i \in 1..Len(t) : KeyMatchLen(t, i) > 0
    THEN LET i == CHOOSE k \in 1..Len(t) :
                      /\ KeyMatchLen(t, k) > 0
                      /\ \A j \in 1..(k - 1) : KeyMatchLen(t, j) = 0
         IN  SubSeq(t, i, i + KeyMatchLen(t, i) - 1)
    ELSE Undefined

OrEmpty(v) == IF Truthy(v) THEN v ELSE <<>>

\* The template literal of the source: the three candidate fields.  It throws
\* when pull_request is present and has no head.
KeyTextThrows(payload) ==
    payload.pull_request # NoObject /\ payload.pull_request.head = NoObject

\* Faulty variant: only the branch ref is searched.
KeyText_RefOnly(payload) == OrEmpty(payload.ref)

KeyText(payload) ==
    OrEmpty(payload.ref) \o <<" ">>
      \o (IF payload.pull_request = NoObject THEN <<>>
          ELSE OrEmpty(payload.pull_request.head.ref)) \o <<" ">>
      \o (IF payload.pull_request = NoObject THEN <<>>
          ELSE OrEmpty(payload.pull_request.title))

\* What the tracker answers a transition request: whether the GET of the
\* transitions succeeds, the names it lists, whether the POST succeeds.
TransitionReplies ==
    { [getOk |-> g, names |-> n, postOk |-> p] :
        g \in BOOLEAN, p \in BOOLEAN,
        n \in { {}, {<<"i","n"," ","p","r","o","g","r","e","s","s">>, Done},
                {InProgress, <<"D","O","N","E">>} } }

\* findTransitionIdByName and updateTicketStatus: TRUE when neither throws.
UpdateTicketStatus(reply, statusName) ==
    /\ reply.getOk
    /\ \E n \in reply.names : ToLowerCase(n) = ToLowerCase(statusName)
    /\ reply.postOk

\* res.status(202).send('Accepted')
GithubAck(tr) == Append(tr, Respond(202, <<"A","c","c","e","p","t","e","d">>))

\* Faulty variant: the catch block answers the request with an error status.
GithubCatch_Responds(f, tr) ==
    [f EXCEPT !.pc = "done",
              !.trace = tr \o <<LogError("github"), Respond(500, <<"e","r","r","o","r">>)>>]

\* Faulty variant: the catch block posts a failure notice to the support channel.
GithubCatch_Notifies(f, tr) ==
    [f EXCEPT !.pc = "github:notice",
              !.trace = tr \o <<LogError("github"),
                                Call("postMessage", <<SupportChannelId, FailureText>>)>>]

\* The catch block of handleGithubEvent.
GithubCatch(f, tr) == [f EXCEPT !.pc = "done", !.trace = Append(tr, LogError("github"))]

StartedText(ref)  == <<"s","t","a","r","t","e","d",":"," ">> \o OrEmpty(ref)
MergedText(url)   == <<"m","e","r","g","e","d",":"," ">> \o url
ResolvedText(key) == <<"I","s","s","u","e"," ">> \o key \o <<" ","r","e","s","o","l","v","e","d">>

\* Faulty variant: every creation event counts, branch or not.
IsBranchCreation_AnyCreate(eventType, payload) == eventType = "create"

\* eventType === 'create' && payload.ref_type === 'branch'
IsBranchCreation(eventType, payload) ==
    eventType = "create" /\ payload.ref_type = "branch"

\* eventType === 'pull_request' && payload.action === 'closed', the guard
\* in front of payload.pull_request.merged
IsClosedPullRequest(eventType, payload) ==
    eventType = "pull_request" /\ payload.action = <<"c","l","o","s","e","d">>

\* The try block of handleGithubEvent up to its first await.
GithubTry(f, payload) ==
    IF KeyTextThrows(payload) THEN GithubCatch(f, f.trace)
    ELSE LET jiraKey == ExtractJiraKey(KeyText(payload))
         IN  IF ~Truthy(jiraKey) THEN f
             ELSE IF IsBranchCreation(f.req.eventType, payload)
                  THEN [f EXCEPT !.pc = "github:progress",
                                 !.loc = [jiraKey |-> jiraKey],
                                 !.trace = Append(@, Call("updateTicketStatus",
                                                          <<jiraKey, InProgress>>))]
             ELSE IF IsClosedPullRequest(f.req.eventType, payload)
                  THEN IF payload.pull_request = NoObject
                       THEN GithubCatch(f, f.trace)
                       ELSE IF payload.pull_request.merged
                            THEN [f EXCEPT !.pc = "github:done",
                                           !.loc = [jiraKey |-> jiraKey],
                                           !.trace = Append(@, Call("updateTicketStatus",
                                                                    <<jiraKey, Done>>))]
                            ELSE f
             ELSE f

\* handleGithubEvent up to its first await.
HandleGithubEvent ==
    /\ flow.pc = "idle"
    /\ \E req \in GithubRequests :
         LET f0 == [handler |-> "github", req |-> req, pc |-> "done",
                    trace |-> <<>>, loc |-> NoObject]
             v  == VerifySignature(req)
         IN  flow' =
               IF v = "throws" THEN [f0 EXCEPT !.pc = "unhandled"]
               ELSE IF v = "unauthorized"
                    THEN [f0 EXCEPT !.trace = <<Respond(401, <<"I","n","v","a","l","i","d">>)>>]
               ELSE GithubTry([f0 EXCEPT !.trace = GithubAck(<<>>)], req.body)
    /\ UNCHANGED jobs

\* await updateTicketStatus(jiraKey, 'In Progress') settles.
GithubProgressReturns ==
    /\ flow.pc = "github:progress"
    /\ \E reply \in TransitionReplies :
         flow' =
           IF UpdateTicketStatus(reply, InProgress)
           THEN [flow EXCEPT !.pc = "github:progress-comment",
                             !.trace = Append(Settle(@, "ok"),
                                 Call("addComment",
                                      <<flow.loc.jiraKey, StartedText(flow.req.body.ref)>>))]
           ELSE GithubCatch(flow, Settle(flow.trace, "fail"))
    /\ UNCHANGED jobs

\* await addComment(jiraKey, 'Work has started on branch: ...') settles.
GithubProgressCommentReturns ==
    /\ flow.pc = "github:progress-comment"
    /\ \/ flow' = [flow EXCEPT !.pc = "done", !.trace = Settle(@, "ok")]
       \/ flow' = GithubCatch(flow, Settle(flow.trace, "fail"))
    /\ UNCHANGED jobs

\* Faulty variant: the comment is appended whether or not the transition
\* succeeded.
GithubDoneReturns_IgnoresFailure ==
    /\ flow.pc = "github:done"
    /\ \E reply \in TransitionReplies :
         flow' = [flow EXCEPT
                    !.pc = "github:done-comment",
                    !.trace = Append(Settle(@, IF UpdateTicketStatus(reply, Done)
                                               THEN "ok" ELSE "fail"),
                        Call("addComment",
                             <<flow.loc.jiraKey,
                               MergedText(flow.req.body.pull_request.html_url)>>))]
    /\ UNCHANGED jobs

\* await updateTicketStatus(jiraKey, 'Done') settles.
GithubDoneReturns ==
    /\ flow.pc = "github:done"
    /\ \E reply \in TransitionReplies :
         flow' =
           IF UpdateTicketStatus(reply, Done)
           THEN [flow EXCEPT !.pc = "github:done-comment",
                             !.trace = Append(Settle(@, "ok"),
                                 Call("addComment",
                                      <<flow.loc.jiraKey,
                                        MergedText(flow.req.body.pull_request.html_url)>>))]
           ELSE GithubCatch(flow, Settle(flow.trace, "fail"))
    /\ UNCHANGED jobs

\* await addComment(jiraKey, 'Pull request merged: ...') settles.
GithubDoneCommentReturns ==
    /\ flow.pc = "github:done-comment"
    /\ \/ flow' = [flow EXCEPT !.pc = "github:notice",
                               !.trace = Append(Settle(@, "ok"),
                                   Call("postMessage",
                                        <<SupportChannelId, ResolvedText(flow.loc.jiraKey)>>))]
       \/ flow' = GithubCatch(flow, Settle(flow.trace, "fail"))
    /\ UNCHANGED jobs

\* await postMessage(supportChannelId, ...) settles.
GithubNoticeReturns ==
    /\ flow.pc = "github:notice"
    /\ \/ flow' = [flow EXCEPT !.pc = "done", !.trace = Settle(@, "ok")]
       \/ flow' = GithubCatch(flow, Settle(flow.trace, "fail"))
    /\ UNCHANGED jobs

----------------------------------------------------------------------------
(* Notification gateway: sendDirectMessageByEmail *)

\* webClient.users.lookupByEmail settles: it throws, or finds no user, or
\* finds one.
LookupOutcomes == {"throws", "not-found", "found"}

Email1 == <<"a","@","x">>

\* The chat-platform user id that lookupByEmail finds for an address.
SlackIdOf(email) == <<"U",":">> \o email

----------------------------------------------------------------------------
(* Transcript handler *)

UpdateChannelId == "C0A1D39J9M3"

Transcripts == { Undefined, <<>>, <<"p","a","u","s","e"," ","K","A","N","-","1">> }

PausedKey == <<"K","A","N","-","1">>

Details(su, de, it, sq, co, tk, re) ==
    [summary |-> su, description |-> de, issueType |-> it, searchQuery |-> sq,
     comment |-> co, ticketKey |-> tk, reason |-> re]

U == Undefined

TranscriptDetails ==
    { Details(<<"s","u","m">>, <<"d","e","s","c">>, <<"T","a","s","k">>, U, U, U, U),
      Details(<<"s","u","m">>, <<"d","e","s","c">>, U, U, U, U, U),
      Details(U, U, U, <<"d","a","r","k">>, <<"n","o","t","e">>, U, U),
      Details(U, U, U, <<"d","a","r","k">>, U, U, U),
      Details(U, U, U, U, U, PausedKey, <<"l","a","t","e","r">>),
      Details(U, U, U, U, U, U, <<"l","a","t","e","r">>),
      Details(U, U, U, U, U, PausedKey, <<>>),
      Details(U, U, U, U, U, U, U) }

Intents == {"CREATE_ISSUE", "ADD_COMMENT", "PAUSE_ISSUE", "NONE", "REOPEN_ISSUE"}

\* What model.generateContent gives analyzeTranscript.  A missing intent or
\* confidence is "", missing details are NoObject.
GeminiTranscriptReplies ==
    { [ok |-> FALSE, parses |-> FALSE, json |-> NoObject],
      [ok |-> TRUE,  parses |-> FALSE, json |-> NoObject],
      [ok |-> TRUE,  parses |-> TRUE,
       json |-> [intent |-> "", confidence |-> "high", details |-> Details(U, U, U, U, U, U, U)]],
      [ok |-> TRUE,  parses |-> TRUE,
       json |-> [intent |-> "NONE", confidence |-> "", details |-> Details(U, U, U, U, U, U, U)]],
      [ok |-> TRUE,  parses |-> TRUE,
       json |-> [intent |-> "PAUSE_ISSUE", confidence |-> "high", details |-> NoObject]] }
    \cup
    { [ok |-> TRUE, parses |-> TRUE,
       json |-> [intent |-> i, confidence |-> c, details |-> d]] :
        i \in Intents, c \in {"high", "medium", "low"}, d \in TranscriptDetails }

\* analyzeTranscript: the try block and its catch.
AnalyzeTranscript(reply) ==
    IF ~reply.ok \/ ~reply.parses
    THEN [threw |-> TRUE, value |-> NoObject]
    ELSE IF    reply.json.intent = "" \/ reply.json.confidence = ""
            \/ reply.json.details = NoObject
         THEN [threw |-> TRUE, value |-> NoObject]
         ELSE [threw |-> FALSE, value |-> reply.json]

\* Faulty variant: only low confidence stops the handler.
NotConfident_OnlyLow(analysis) == analysis.confidence = "low"

\* analysis.confidence !== 'high'
NotConfident(analysis) == analysis.confidence # "high"

\* response.data of createTicket: the key, and fields when the tracker
\* sends them back.
CreatedTickets ==
    { [key |-> k, fields |-> f] :
        k \in NewTicketKeys, f \in {NoObject, [summary |-> <<"s","u","m">>]} }

\* response.data.issues of searchJiraIssues, most recently updated first.
FoundKey1 == <<"K","A","N","-","3">>
FoundKey2 == <<"K","A","N","-","2">>
SearchResults == { <<>>, <<[key |-> FoundKey1]>>, <<[key |-> FoundKey1], [key |-> FoundKey2]>>,
                   <<[key |-> FoundKey2], [key |-> FoundKey1]>> }

\* What getTicketAssignee and getUserDetailsById resolve to: null, or an
\* object whose emailAddress may be undefined.
UserDetails == { NoObject, [emailAddress |-> Undefined], [emailAddress |-> Email1] }

\* user && user.emailAddress
HasEmail(user) == user # NoObject /\ Truthy(user.emailAddress)

CreatedText(key, summary) ==
    <<"c","r","e","a","t","e","d",":"," ">> \o key \o <<" ">> \o summary
MeetingNote(comment)      == <<"N","o","t","e",":"," ">> \o comment
NoteAddedText(key, comment) ==
    <<"n","o","t","e"," ","a","d","d","e","d"," ">> \o key \o <<" ">> \o Substring0(comment, 50)
OnHoldText(reason)        == <<"o","n"," ","h","o","l","d",":"," ">> \o reason
PausedDmText(key)         == <<"p","a","u","s","e","d"," ">> \o key

\* res.status(202).send('Accepted')
MeetAck(tr) == Append(tr, Respond(202, <<"A","c","c","e","p","t","e","d">>))

\* The catch block of handleMeetEvent.
MeetCatch(f, tr) == [f EXCEPT !.pc = "done", !.trace = Append(tr, LogError("meet"))]

\* Faulty variant: PAUSE_ISSUE is acted on with a ticketKey alone.
MeetDispatch_ReasonOptional(f, analysis) ==
    LET d == analysis.details
    IN  IF analysis.intent = "CREATE_ISSUE"
           /\ Truthy(d.summary) /\ Truthy(d.description) /\ Truthy(d.issueType)
        THEN [f EXCEPT !.pc = "meet:create",
                       !.trace = Append(@, Call("createTicket",
                           <<[projectKey |-> DefaultProject, summary |-> d.summary,
                              description |-> d.description, issueType |-> d.issueType]>>))]
        ELSE IF analysis.intent = "ADD_COMMENT"
                /\ Truthy(d.searchQuery) /\ Truthy(d.comment)
        THEN [f EXCEPT !.pc = "meet:search",
                       !.trace = Append(@, Call("searchJiraIssues", <<d.searchQuery>>))]
        ELSE IF analysis.intent = "PAUSE_ISSUE"
                /\ Truthy(d.ticketKey)
        THEN [f EXCEPT !.pc = "meet:pause-comment",
                       !.trace = Append(@, Call("addComment",
                                                <<d.ticketKey, OnHoldText(d.reason)>>))]
        ELSE [f EXCEPT !.pc = "done"]

\* The switch of handleMeetEvent up to its first await.
MeetDispatch(f, analysis) ==
    LET d == analysis.details
    IN  IF analysis.intent = "CREATE_ISSUE"
           /\ Truthy(d.summary) /\ Truthy(d.description) /\ Truthy(d.issueType)
        THEN [f EXCEPT !.pc = "meet:create",
                       !.trace = Append(@, Call("createTicket",
                           <<[projectKey |-> DefaultProject, summary |-> d.summary,
                              description |-> d.description, issueType |-> d.issueType]>>))]
        ELSE IF analysis.intent = "ADD_COMMENT"
                /\ Truthy(d.searchQuery) /\ Truthy(d.comment)
        THEN [f EXCEPT !.pc = "meet:search",
                       !.trace = Append(@, Call("searchJiraIssues", <<d.searchQuery>>))]
        ELSE IF analysis.intent = "PAUSE_ISSUE"
                /\ Truthy(d.ticketKey) /\ Truthy(d.reason)
        THEN [f EXCEPT !.pc = "meet:pause-comment",
                       !.trace = Append(@, Call("addComment",
                                                <<d.ticketKey, OnHoldText(d.reason)>>))]
        ELSE [f EXCEPT !.pc = "done"]

\* handleMeetEvent up to its first await.
HandleMeetEvent ==
    /\ flow.pc = "idle"
    /\ \E transcript \in Transcripts :
         LET f0 == [handler |-> "meet", req |-> [transcript |-> transcript],
                    pc |-> "done", trace |-> <<>>, loc |-> NoObject]
         IN  flow' =
               IF ~Truthy(transcript)
               THEN [f0 EXCEPT !.trace = <<Respond(400, <<"m","i","s","s","i","n","g">>)>>]
               ELSE [f0 EXCEPT !.pc = "meet:analyze",
                               !.trace = Append(MeetAck(<<>>),
                                                Call("analyzeTranscript", <<transcript>>))]
    /\ UNCHANGED jobs

\* await analyzeTranscript(transcript) settles.
MeetAnalyzeReturns ==
    /\ flow.pc = "meet:analyze"
    /\ \E reply \in GeminiTranscriptReplies :
         LET r == AnalyzeTranscript(reply)
         IN  flow' =
               IF r.threw THEN MeetCatch(flow, Settle(flow.trace, "fail"))
               ELSE LET f1 == [flow EXCEPT !.trace = Settle(@, "ok"),
                                           !.loc = [analysis |-> r.value]]
                    IN  IF NotConfident(r.value) THEN [f1 EXCEPT !.pc = "done"]
                        ELSE MeetDispatch(f1, r.value)
    /\ UNCHANGED jobs

\* CREATE_ISSUE: await createTicket(newTicketDetails) settles.  Reading
\* ticket.fields.summary throws when the tracker sent no fields.
MeetCreateReturns ==
    /\ flow.pc = "meet:create"
    /\ \/ flow' = MeetCatch(flow, Settle(flow.trace, "fail"))
       \/ \E ticket \in CreatedTickets :
            flow' =
              IF ticket.fields = NoObject
              THEN MeetCatch(flow, Settle(flow.trace, "ok"))
              ELSE [flow EXCEPT !.pc = "meet:create-post",
                                !.trace = Append(Settle(@, "ok"),
                                    Call("postMessage",
                                         <<UpdateChannelId,
                                           CreatedText(ticket.key, ticket.fields.summary)>>))]
    /\ UNCHANGED jobs

\* CREATE_ISSUE: await postMessage(updateChannelId, ...) settles.
MeetCreatePostReturns ==
    /\ flow.pc = "meet:create-post"
    /\ \/ flow' = [flow EXCEPT !.pc = "done", !.trace = Settle(@, "ok")]
       \/ flow' = MeetCatch(flow, Settle(flow.trace, "fail"))
    /\ UNCHANGED jobs

\* Faulty variant: the comment goes to the last result of the search.
MeetSearchReturns_LastResult ==
    /\ flow.pc = "meet:search"
    /\ \/ flow' = MeetCatch(flow, Settle(flow.trace, "fail"))
       \/ \E issues \in SearchResults :
            flow' =
              IF Len(issues) > 0
              THEN [flow EXCEPT !.pc = "meet:note",
                                !.loc = [analysis |-> flow.loc.analysis, issues |-> issues],
                                !.trace = Append(Settle(@, "ok"),
                                    Call("addComment",
                                         <<issues[Len(issues)].key,
                                           MeetingNote(flow.loc.analysis.details.comment)>>))]
              ELSE [flow EXCEPT !.pc = "done",
                                !.loc = [analysis |-> flow.loc.analysis, issues |-> issues],
                                !.trace = Settle(@, "ok")]
    /\ UNCHANGED jobs

\* ADD_COMMENT: await searchJiraIssues(searchQuery) settles.
MeetSearchReturns ==
    /\ flow.pc = "meet:search"
    /\ \/ flow' = MeetCatch(flow, Settle(flow.trace, "fail"))
       \/ \E issues \in SearchResults :
            flow' =
              IF Len(issues) > 0
              THEN [flow EXCEPT !.pc = "meet:note",
                                !.loc = [analysis |-> flow.loc.analysis, issues |-> issues],
                                !.trace = Append(Settle(@, "ok"),
                                    Call("addComment",
                                         <<issues[1].key,
                                           MeetingNote(flow.loc.analysis.details.comment)>>))]
              ELSE [flow EXCEPT !.pc = "done",
                                !.loc = [analysis |-> flow.loc.analysis, issues |-> issues],
                                !.trace = Settle(@, "ok")]
    /\ UNCHANGED jobs

\* ADD_COMMENT: await addComment(mostRelevantIssue.key, ...) settles.
MeetNoteReturns ==
    /\ flow.pc = "meet:note"
    /\ \/ flow' = MeetCatch(flow, Settle(flow.trace, "fail"))
       \/ flow' = [flow EXCEPT !.pc = "meet:note-post",
                               !.trace = Append(Settle(@, "ok"),
                                   Call("postMessage",
                                        <<UpdateChannelId,
                                          NoteAddedText(flow.loc.issues[1].key,
                                                        flow.loc.analysis.details.comment)>>))]
    /\ UNCHANGED jobs

\* ADD_COMMENT: await postMessage(updateChannelId, ...) settles.
MeetNotePostReturns ==
    /\ flow.pc = "meet:note-post"
    /\ \/ flow' = [flow EXCEPT !.pc = "done", !.trace = Settle(@, "ok")]
       \/ flow' = MeetCatch(flow, Settle(flow.trace, "fail"))
    /\ UNCHANGED jobs

\* PAUSE_ISSUE: await addComment(ticketKey, comment) settles.
MeetPauseCommentReturns ==
    /\ flow.pc = "meet:pause-comment"
    /\ \/ flow' = MeetCatch(flow, Settle(flow.trace, "fail"))
       \/ flow' = [flow EXCEPT !.pc = "meet:assignee",
                               !.trace = Append(Settle(@, "ok"),
                                   Call("getTicketAssignee",
                                        <<flow.loc.analysis.details.ticketKey>>))]
    /\ UNCHANGED jobs

\* PAUSE_ISSUE: await getTicketAssignee(ticketKey) settles; with an address,
\* sendDirectMessageByEmail runs up to its lookup.
MeetAssigneeReturns ==
    /\ flow.pc = "meet:assignee"
    /\ \/ flow' = MeetCatch(flow, Settle(flow.trace, "fail"))
       \/ \E assignee \in UserDetails :
            flow' =
              IF HasEmail(assignee)
              THEN [flow EXCEPT !.pc = "meet:lookup",
                                !.loc = [analysis |-> flow.loc.analysis,
                                         email |-> assignee.emailAddress],
                                !.trace = Append(Settle(@, "ok"),
                                    Call("users.lookupByEmail", <<assignee.emailAddress>>))]
              ELSE [flow EXCEPT !.pc = "done", !.trace = Settle(@, "ok")]
    /\ UNCHANGED jobs

\* PAUSE_ISSUE, in sendDirectMessageByEmail: await lookupByEmail settles.
MeetLookupReturns ==
    /\ flow.pc = "meet:lookup"
    /\ \E o \in LookupOutcomes :
         flow' =
           IF o = "throws" THEN MeetCatch(flow, Settle(flow.trace, "fail"))
           ELSE IF o = "not-found"
                THEN [flow EXCEPT !.pc = "done", !.trace = Settle(@, "ok")]
           ELSE [flow EXCEPT !.pc = "meet:dm",
                             !.trace = Append(Settle(@, "ok"),
                                 Call("chat.postMessage",
                                      <<SlackIdOf(flow.loc.email),
                                        PausedDmText(flow.loc.analysis.details.ticketKey)>>))]
    /\ UNCHANGED jobs

\* PAUSE_ISSUE, in sendDirectMessageByEmail: await chat.postMessage settles.
MeetDmReturns ==
    /\ flow.pc = "meet:dm"
    /\ \/ flow' = [flow EXCEPT !.pc = "done", !.trace = Settle(@, "ok")]
       \/ flow' = MeetCatch(flow, Settle(flow.trace, "fail"))
    /\ UNCHANGED jobs

----------------------------------------------------------------------------
(* Issue-tracker-comment handler (the Unblocker) and its escalation timers *)

BLOCKING_KEYWORDS ==
    { <<"b","l","o","c","k","e","d"," ","b","y">>,
      <<"w","a","i","t","i","n","g"," ","o","n">>,
      <<"c","a","n","t"," ","p","r","o","c","e","e","d"," ","u","n","t","i","l">>,
      <<"u","n","b","l","o","c","k"," ","p","l","e","a","s","e">> }

\* The characters of the class [a-f0-9\-:] of MENTION_REGEX.
AccountIdChars == {"a","b","c","d","e","f","-",":"} \cup Digits

AccountIdLabel == <<"a","c","c","o","u","n","t","i","d",":">>

RECURSIVE AccountIdRun(_, _)
AccountIdRun(t, i) ==
    IF i <= Len(t) /\ t[i] \in AccountIdChars THEN 1 + AccountIdRun(t, i + 1) ELSE 0

\* The length of the match of /[[~]accountid:([a-f0-9\-:]+)]/ that starts
\* at i, 0 if none: one of '[' and '~', the label, the id, then ']'.
MentionMatchLen(t, i) ==
    LET k == Len(AccountIdLabel)
        n == AccountIdRun(t, i + 1 + k)
    IN  IF /\ t[i] \in {"[", "~"}
           /\ i + k <= Len(t)
           /\ SubSeq(t, i + 1, i + k) = AccountIdLabel
           /\ n >= 1
           /\ i + 1 + k + n <= Len(t)
           /\ t[i + 1 + k + n] = "]"
        THEN 1 + k + n + 1 ELSE 0

\* [...commentBody.matchAll(MENTION_REGEX)], each match by its group 1:
\* the successive matches from position i on, left to right.
RECURSIVE MatchAllMentions(_, _)
MatchAllMentions(t, i) ==
    IF i > Len(t) THEN <<>>
    ELSE LET m == MentionMatchLen(t, i)
         IN  IF m > 0
             THEN <<SubSeq(t, i + 1 + Len(AccountIdLabel), i + m - 2)>>
                      \o MatchAllMentions(t, i + m)
             ELSE MatchAllMentions(t, i + 1)

\* BLOCKING_KEYWORDS.some(keyword => commentBody.toLowerCase().includes(keyword))
IsBlocked(commentBody) ==
    \E keyword \in BLOCKING_KEYWORDS : Includes(ToLowerCase(commentBody), keyword)

\* [...commentBody.matchAll(MENTION_REGEX)]
Mentions(commentBody) == MatchAllMentions(commentBody, 1)

Accounts == { <<"a","1">>, <<"b","2">> }

MentionText(accountId) == <<"[","~">> \o AccountIdLabel \o accountId \o <<"]">>

RECURSIVE MentionTexts(_)
MentionTexts(n) ==
    IF n = 0 THEN { <<>> }
    ELSE { m \o <<" ">> \o MentionText(a) : m \in MentionTexts(n - 1), a \in Accounts }

CommentPrefixes ==
    { <<"B","l","o","c","k","e","d"," ","B","y">>,
      <<"w","a","i","t","i","n","g"," ","o","n">>,
      <<"f","y","i">> }

CommentBodies ==
    { p \o m : p \in CommentPrefixes,
               m \in UNION { MentionTexts(n) : n \in 0..MaxMentions } }

TicketKeys == { <<"K","A","N","-","5">> }
Statuses   == { InProgress, Done }
Author1    == <<"A","n","n">>

\* isBlocked and mentions of handleJiraEvent for each inbound comment body,
\* evaluated once per body.
CommentAnalysis ==
    [b \in CommentBodies |-> [isBlocked |-> IsBlocked(b), mentions |-> Mentions(b)]]

\* isBlocked && mentions.length > 0
ConditionsMet(analysis) == analysis.isBlocked /\ Len(analysis.mentions) > 0

JiraEvents ==
    { [webhookEvent |-> w,
       comment |-> [body |-> b, author |-> [displayName |-> Author1]],
       issue |-> [key |-> k, status |-> st]] :
        w \in {"comment_created", "comment_updated"}, b \in CommentBodies,
        k \in TicketKeys, st \in Statuses }

EmailOf(accountId) == accountId \o <<"@","x">>

\* What getUserDetailsById resolves to for an account.
UserDetailsOf(accountId) ==
    { NoObject, [emailAddress |-> Undefined], [emailAddress |-> EmailOf(accountId)] }

AlertText(key, author, body) ==
    <<"B","l","o","c","k","e","r"," ">> \o key \o <<" ">> \o author \o <<" ">>
        \o Substring0(body, 200)

DevChannelId == "C07M6QXL71Q"

\* The delay of the timer, in hours (4 * 60 * 60 * 1000 ms).
FOUR_HOURS_IN_MS == 4

EscalationText(key, status, author) ==
    <<"E","s","c","a","l","a","t","i","o","n"," ">> \o key \o <<" ">> \o status
        \o <<" ">> \o author

\* setTimeout(callback, FOUR_HOURS_IN_MS): the closure keeps ticketKey,
\* ticketStatus and author of the invocation that registered it.
\* Faulty variant: the baseline is taken to be "In Progress" whatever the
\* event says.
NewJob_AssumesInProgress(event) ==
    [ticketKey |-> event.issue.key, ticketStatus |-> InProgress,
     author |-> event.comment.author.displayName,
     remaining |-> FOUR_HOURS_IN_MS, pc |-> "pending", current |-> Undefined,
     trace |-> <<>>]

NewJob(event) ==
    [ticketKey |-> event.issue.key, ticketStatus |-> event.issue.status,
     author |-> event.comment.author.displayName,
     remaining |-> FOUR_HOURS_IN_MS, pc |-> "pending", current |-> Undefined,
     trace |-> <<>>]

\* Faulty variant: the comparison is dropped and every fired job escalates.
StatusUnchanged_Always(current, ticketStatus) == TRUE

\* currentIssue.data.fields.status.name === ticketStatus
StatusUnchanged(current, ticketStatus) == current = ticketStatus

\* res.status(200).send('OK')
JiraAck(tr) == Append(tr, Respond(200, <<"O","K">>))

\* The head of the for loop over the mentions: the i-th iteration runs up to
\* its first await, or the loop and the handler end.
JiraMention(f, i) ==
    IF i > Len(f.loc.mentions)
    THEN [f EXCEPT !.pc = "done", !.loc = [mentions |-> f.loc.mentions, i |-> i]]
    ELSE [f EXCEPT !.pc = "jira:user",
                   !.loc = [mentions |-> f.loc.mentions, i |-> i],
                   !.trace = Append(@, Call("getUserDetailsById", <<f.loc.mentions[i]>>))]

\* The catch block inside the loop: log, then on to the next mention.
JiraCatch(f, tr) ==
    JiraMention([f EXCEPT !.trace = Append(tr, LogError("jira"))], f.loc.i + 1)

\* handleJiraEvent up to its first await, for an event among events.
HandleJiraEventFrom(events) ==
    /\ flow.pc = "idle"
    /\ \E event \in events :
         LET f0 == [handler |-> "jira", req |-> event, pc |-> "done",
                    trace |-> JiraAck(<<>>), loc |-> NoObject]
             a  == CommentAnalysis[event.comment.body]
         IN  IF event.webhookEvent # "comment_created" THEN flow' = f0
             ELSE IF ~ConditionsMet(a) THEN flow' = f0
             ELSE /\ Len(jobs) + Len(a.mentions) <= MaxJobs
                  /\ flow' = JiraMention([f0 EXCEPT !.loc = [mentions |-> a.mentions,
                                                              i |-> 1]], 1)
    /\ UNCHANGED jobs

HandleJiraEvent == HandleJiraEventFrom(JiraEvents)

\* Blocker comments with one mention, on two tickets.
OtherTicketKey == <<"K","A","N","-","6">>

TwoTicketEvents ==
    { [webhookEvent |-> "comment_created",
       comment |-> [body |-> <<"B","l","o","c","k","e","d"," ","B","y">> \o m,
                    author |-> [displayName |-> Author1]],
       issue |-> [key |-> k, status |-> st]] :
        m \in MentionTexts(1), k \in TicketKeys \cup {OtherTicketKey},
        st \in Statuses }

HandleTwoTicketEvent == HandleJiraEventFrom(TwoTicketEvents)

\* await getUserDetailsById(accountId) settles; with an address,
\* sendDirectMessageByEmail runs up to its lookup.
JiraUserReturns ==
    /\ flow.pc = "jira:user"
    /\ \/ flow' = JiraCatch(flow, Settle(flow.trace, "fail"))
       \/ \E user \in UserDetailsOf(flow.loc.mentions[flow.loc.i]) :
            flow' =
              IF HasEmail(user)
              THEN [flow EXCEPT !.pc = "jira:lookup",
                                !.trace = Append(Settle(@, "ok"),
                                    Call("users.lookupByEmail", <<user.emailAddress>>))]
              ELSE JiraMention([flow EXCEPT !.trace = Settle(@, "ok")], flow.loc.i + 1)
    /\ UNCHANGED jobs

\* In sendDirectMessageByEmail: await lookupByEmail settles.  When no user is
\* found the function returns normally and the handler goes on to setTimeout.
JiraLookupReturns ==
    /\ flow.pc = "jira:lookup"
    /\ \E o \in LookupOutcomes :
         IF o = "throws"
         THEN /\ flow' = JiraCatch(flow, Settle(flow.trace, "fail"))
              /\ UNCHANGED jobs
         ELSE IF o = "not-found"
         THEN /\ flow' = JiraMention([flow EXCEPT !.trace = Settle(@, "ok")], flow.loc.i + 1)
              /\ jobs' = Append(jobs, NewJob(flow.req))
         ELSE /\ flow' = [flow EXCEPT
                            !.pc = "jira:dm",
                            !.trace = Append(Settle(@, "ok"),
                                Call("chat.postMessage",
                                     <<SlackIdOf(EmailOf(flow.loc.mentions[flow.loc.i])),
                                       AlertText(flow.req.issue.key,
                                                 flow.req.comment.author.displayName,
                                                 flow.req.comment.body)>>))]
              /\ UNCHANGED jobs

\* In sendDirectMessageByEmail: await chat.postMessage settles; on success
\* the handler registers the timer.
JiraDmReturns ==
    /\ flow.pc = "jira:dm"
    /\ \/ /\ flow' = JiraMention([flow EXCEPT !.trace = Settle(@, "ok")], flow.loc.i + 1)
          /\ jobs' = Append(jobs, NewJob(flow.req))
       \/ /\ flow' = JiraCatch(flow, Settle(flow.trace, "fail"))
          /\ UNCHANGED jobs

\* An hour passes: every timer still running comes an hour closer.
Tick ==
    /\ \E j \in 1..Len(jobs) : jobs[j].pc = "pending" /\ jobs[j].remaining > 0
    /\ jobs' = [j \in 1..Len(jobs) |->
                  IF jobs[j].pc = "pending" /\ jobs[j].remaining > 0
                  THEN [jobs[j] EXCEPT !.remaining = @ - 1]
                  ELSE jobs[j]]
    /\ UNCHANGED flow

\* Faulty variant: a firing timer re-arms the timers still pending.
JobFires_RearmsOthers(j) ==
    /\ jobs[j].pc = "pending"
    /\ jobs[j].remaining = 0
    /\ jobs' = [k \in 1..Len(jobs) |->
                  IF k = j
                  THEN [jobs[j] EXCEPT
                          !.pc = "job:read",
                          !.trace = <<Call("jiraApiClient.get", <<jobs[j].ticketKey>>)>>]
                  ELSE IF jobs[k].pc = "pending"
                       THEN [jobs[k] EXCEPT !.remaining = FOUR_HOURS_IN_MS]
                       ELSE jobs[k]]
    /\ UNCHANGED flow

\* Faulty variant: the callback runs whether or not the delay has elapsed.
JobFires_Early(j) ==
    /\ jobs[j].pc = "pending"
    /\ jobs' = [jobs EXCEPT ![j].pc = "job:read",
                            ![j].trace = <<Call("jiraApiClient.get", <<jobs[j].ticketKey>>)>>]
    /\ UNCHANGED flow

\* The timer of job j has run out: the callback runs up to its await.
JobFires(j) ==
    /\ jobs[j].pc = "pending"
    /\ jobs[j].remaining = 0
    /\ jobs' = [jobs EXCEPT ![j].pc = "job:read",
                            ![j].trace = <<Call("jiraApiClient.get", <<jobs[j].ticketKey>>)>>]
    /\ UNCHANGED flow

\* Faulty variant: the catch block escalates, to be on the safe side.
JobCatch_Escalates(job, tr) ==
    [job EXCEPT !.pc = "job:post",
                !.trace = tr \o <<LogError("escalation"),
                                  Call("postMessage",
                                       <<DevChannelId,
                                         EscalationText(job.ticketKey, job.ticketStatus,
                                                        job.author)>>)>>]

\* The catch block of the callback.
JobCatch(job, tr) == [job EXCEPT !.pc = "done", !.trace = Append(tr, LogError("escalation"))]

\* await jiraApiClient.get(`/issue/${ticketKey}?fields=status`) settles:
\* current is currentIssue.data.fields.status.name.
JobReadReturns(j) ==
    /\ jobs[j].pc = "job:read"
    /\ \/ jobs' = [jobs EXCEPT ![j] = JobCatch(jobs[j], Settle(jobs[j].trace, "fail"))]
       \/ \E current \in Statuses :
            jobs' = [jobs EXCEPT ![j] =
              IF StatusUnchanged(current, jobs[j].ticketStatus)
              THEN [jobs[j] EXCEPT
                      !.pc = "job:post",
                      !.current = current,
                      !.trace = Append(Settle(@, "ok"),
                                       Call("postMessage",
                                            <<DevChannelId,
                                              EscalationText(jobs[j].ticketKey,
                                                             jobs[j].ticketStatus,
                                                             jobs[j].author)>>))]
              ELSE [jobs[j] EXCEPT !.pc = "done", !.current = current,
                                   !.trace = Settle(@, "ok")]]
    /\ UNCHANGED flow

\* await postMessage(devChannelId, escalationText) settles.
JobPostReturns(j) ==
    /\ jobs[j].pc = "job:post"
    /\ \/ jobs' = [jobs EXCEPT ![j].pc = "done", ![j].trace = Settle(@, "ok")]
       \/ jobs' = [jobs EXCEPT ![j] = JobCatch(jobs[j], Settle(jobs[j].trace, "fail"))]
    /\ UNCHANGED flow

\* The promise a handler returned has settled: the invocation is over.
Return ==
    /\ flow.pc \in {"done", "unhandled"}
    /\ flow' = Idle
    /\ UNCHANGED jobs

TimerFires            == \E j \in 1..Len(jobs) : JobFires(j)
EscalationReadReturns == \E j \in 1..Len(jobs) : JobReadReturns(j)
EscalationPostReturns == \E j \in 1..Len(jobs) : JobPostReturns(j)

----------------------------------------------------------------------------

Init ==
    /\ flow = Idle
    /\ jobs = <<>>

SlackStep ==
    \/ HandleSlackEvent
    \/ SlackParseReturns
    \/ SlackCreateReturns
    \/ SlackConfirmReturns
    \/ SlackNoticeReturns

GithubStep ==
    \/ HandleGithubEvent
    \/ GithubProgressReturns
    \/ GithubProgressCommentReturns
    \/ GithubDoneReturns
    \/ GithubDoneCommentReturns
    \/ GithubNoticeReturns

MeetStep ==
    \/ HandleMeetEvent
    \/ MeetAnalyzeReturns
    \/ MeetCreateReturns
    \/ MeetCreatePostReturns
    \/ MeetSearchReturns
    \/ MeetNoteReturns
    \/ MeetNotePostReturns
    \/ MeetPauseCommentReturns
    \/ MeetAssigneeReturns
    \/ MeetLookupReturns
    \/ MeetDmReturns

JiraStep ==
    \/ HandleJiraEvent
    \/ JiraUserReturns
    \/ JiraLookupReturns
    \/ JiraDmReturns

TimerStep ==
    \/ Tick
    \/ TimerFires
    \/ EscalationReadReturns
    \/ EscalationPostReturns

\* The router within one timer delay of its start: the four handlers; the
\* timers they register are held in jobs and none runs out.
Next == SlackStep \/ GithubStep \/ MeetStep \/ JiraStep \/ Return

Spec == Init /\ [][Next]_vars

\* The Unblocker with its timers: time passes and the callbacks run,
\* interleaved with the steps of later invocations of the handler.
NextEscalation == JiraStep \/ Return \/ TimerStep

SpecEscalation == Init /\ [][NextEscalation]_vars

\* The event loop runs every timer that is due and every continuation whose
\* awaited call has settled; time passes; an awaited call settles.
EscalationFairness ==
    /\ WF_vars(Tick)
    /\ WF_vars(TimerFires)
    /\ WF_vars(EscalationReadReturns)
    /\ WF_vars(EscalationPostReturns)

SpecEscalationFair == SpecEscalation /\ EscalationFairness

\* The Unblocker with its timers, for blocker comments on two tickets.
NextTwoTickets ==
    \/ HandleTwoTicketEvent
    \/ JiraUserReturns
    \/ JiraLookupReturns
    \/ JiraDmReturns
    \/ Return
    \/ TimerStep

SpecTwoTickets == Init /\ [][NextTwoTickets]_vars

----------------------------------------------------------------------------
(* Properties *)

Calls(tr)     == SelectSeq(tr, IsCall)
Responses(tr) == SelectSeq(tr, IsResponse)
Posts(tr)     == SelectSeq(tr, LAMBDA e : e.op = "postMessage")

FailedCall(e) == IsCall(e) /\ e.res = "fail"

\* The request answered with exactly this status and nothing else done.
OnlyResponse(f, status) ==
    /\ Len(f.trace) = 1
    /\ IsResponse(f.trace[1])
    /\ f.trace[1].args[1] = status

\* The first entry of the trace is the response with this status.
AckedWith(f, status) ==
    /\ Len(f.trace) >= 1
    /\ IsResponse(f.trace[1])
    /\ f.trace[1].args[1] = status

\* C1: a fired job whose status re-read succeeded has issued exactly one
\* postMessage, to the operations channel, when the status read equals its
\* baseline, and none when it differs; no job ever issues more than one, and
\* none before its re-read returned.
C1_EscalatesIffUnchanged ==
    \A j \in 1..Len(jobs) :
        LET job == jobs[j]
            posts == Posts(job.trace)
        IN  /\ Len(posts) <= 1
            /\ \A i \in 1..Len(posts) : posts[i].args[1] = DevChannelId
            /\ job.pc \in {"pending", "job:read"} => Len(posts) = 0
            /\ job.current # Undefined =>
                 Len(posts) = (IF job.current = job.ticketStatus THEN 1 ELSE 0)

\* A job found the status unchanged and its notice was posted, while another
\* found it changed and ended.
C1_Witness ==
    /\ \E j \in 1..Len(jobs) :
         /\ jobs[j].pc = "done"
         /\ jobs[j].current = jobs[j].ticketStatus
         /\ jobs[j].trace[Len(jobs[j].trace)].op = "postMessage"
         /\ jobs[j].trace[Len(jobs[j].trace)].res = "ok"
    /\ \E j \in 1..Len(jobs) :
         /\ jobs[j].pc = "done"
         /\ jobs[j].current # Undefined
         /\ jobs[j].current # jobs[j].ticketStatus

\* The alerts (direct messages) of a trace that went to an account.
AlertsTo(tr, accountId) ==
    SelectSeq(tr, LAMBDA e : /\ e.op = "chat.postMessage"
                             /\ e.args[1] = SlackIdOf(EmailOf(accountId)))

Alerts(tr) == SelectSeq(tr, LAMBDA e : e.op = "chat.postMessage")

\* Every mention of the comment resolved and every call succeeded: the trace
\* is the response and, for each mention, user lookup, chat lookup, message.
AllDelivered(f) ==
    /\ f.pc = "done"
    /\ f.loc # NoObject
    /\ Len(f.trace) = 1 + 3 * Len(f.loc.mentions)
    /\ \A i \in 2..Len(f.trace) : f.trace[i].res = "ok"

\* C2: a finished invocation for a comment-created event has sent no alert
\* when the comment has a blocking keyword and no mention, none when it has a
\* mention and no blocking keyword, and, when it has both and every account
\* resolved and every call succeeded, exactly one alert to each distinct
\* mentioned account.
C2_OneAlertPerDistinctAccount ==
    (flow.handler = "jira" /\ flow.pc = "done"
       /\ flow.req.webhookEvent = "comment_created") =>
        LET body == flow.req.comment.body
            ms   == Mentions(body)
        IN  /\ (IsBlocked(body) /\ Len(ms) = 0) => Len(Alerts(flow.trace)) = 0
            /\ (~IsBlocked(body) /\ Len(ms) > 0) => Len(Alerts(flow.trace)) = 0
            /\ (IsBlocked(body) /\ Len(ms) > 0 /\ AllDelivered(flow)) =>
                 \A i \in 1..Len(ms) : Len(AlertsTo(flow.trace, ms[i])) = 1

\* C3: a request whose signature header is present and differs from the
\* digest of its body ends with the 401 response and nothing else.
C3_MismatchIsUnauthorized ==
    (/\ flow.handler = "github"
     /\ flow.req.signature # NoObject
     /\ flow.req.signature # DigestOf(GITHUB_WEBHOOK_SECRET, flow.req.rawBody)) =>
        /\ flow.pc = "done"
        /\ OnlyResponse(flow, 401)

\* C4: a source-control request without signature header is answered 401 and
\* its invocation makes no outbound call, whatever its payload.
C4_NoSignatureNoCalls ==
    (flow.handler = "github" /\ flow.req.signature = NoObject) =>
        /\ flow.pc = "done"
        /\ OnlyResponse(flow, 401)

\* The branch-creation event for "f/KAN-42-x" arrived without the header.
C4_Witness ==
    /\ flow.handler = "github"
    /\ flow.req.signature = NoObject
    /\ flow.req.eventType = "create"
    /\ flow.req.body.ref = RefWithKey
    /\ flow.req.body.ref_type = "branch"
    /\ flow.pc = "done"

AllRawBodies == { RawBody(pad, ev[2]) : ev \in GithubEvents, pad \in Pads }

\* C5: a request whose header is the digest of its own raw bytes under the
\* server's secret is accepted (202); a request whose header is the digest,
\* under the same secret, of any other bytes is answered 401 and nothing
\* else, also when those bytes parse to the same payload.
C5_DigestOfRawBytes ==
    flow.handler = "github" =>
        /\ flow.req.signature = DigestOf(GITHUB_WEBHOOK_SECRET, flow.req.rawBody)
             => AckedWith(flow, 202)
        /\ \A B \in AllRawBodies :
             (B # flow.req.rawBody
                /\ flow.req.signature = DigestOf(GITHUB_WEBHOOK_SECRET, B))
             => OnlyResponse(flow, 401)

\* A body that is not in the form JSON.stringify gives was accepted with the
\* digest of its raw bytes.
C5_Witness ==
    /\ flow.handler = "github"
    /\ flow.req.rawBody # JsonStringify(flow.req.body)
    /\ flow.req.signature = DigestOf(GITHUB_WEBHOOK_SECRET, flow.req.rawBody)
    /\ AckedWith(flow, 202)
    /\ Len(Calls(flow.trace)) > 0

\* The requests a handler accepts: all of them for the chat and tracker
\* handlers, the correctly signed ones, the ones with a transcript.
Accepted(f) ==
    CASE f.handler = "github" -> f.req.signature =
                                   DigestOf(GITHUB_WEBHOOK_SECRET, f.req.rawBody)
      [] f.handler = "meet"   -> Truthy(f.req.transcript)
      [] OTHER                -> TRUE

\* C6: an invocation sends at most one response; for an accepted request it
\* has sent exactly one, as its first effect; and no outbound call is issued
\* before the response.
C6_OneResponseBeforeCalls ==
    flow.handler # "none" =>
        /\ Len(Responses(flow.trace)) <= 1
        /\ Accepted(flow) =>
             /\ Len(Responses(flow.trace)) = 1
             /\ IsResponse(flow.trace[1])
        /\ \A i \in 1..Len(flow.trace) :
             IsCall(flow.trace[i]) => \E k \in 1..(i - 1) : IsResponse(flow.trace[k])

\* A chat invocation ended after issuing outbound calls behind its response.
C6_Witness ==
    /\ Len(Calls(flow.trace)) >= 2
    /\ flow.handler = "slack"
    /\ flow.pc = "done"

\* C7: in an invocation where an outbound call has failed, the responses
\* sent are the one acknowledgment (200 or 202) sent first.
C7_FailureAfterAckUnseen ==
    (flow.handler # "none" /\ \E i \in 1..Len(flow.trace) : FailedCall(flow.trace[i])) =>
        /\ Responses(flow.trace) = <<flow.trace[1]>>
        /\ IsResponse(flow.trace[1])
        /\ flow.trace[1].args[1] \in {200, 202}

\* A source-control invocation ended after a failed call.
C7_Witness ==
    /\ flow.handler = "github"
    /\ flow.pc = "done"
    /\ \E i \in 1..Len(flow.trace) : FailedCall(flow.trace[i])

\* C8 as stated: after a failed outbound call the invocation issues no
\* further outbound call.
C8_FailureEndsFlow ==
    \A i \in 1..Len(flow.trace) :
        FailedCall(flow.trace[i]) =>
            \A k \in (i + 1)..Len(flow.trace) : ~IsCall(flow.trace[k])

IsFailureNotice(f, e) ==
    e.op = "postMessage" /\ e.args = <<f.req.event.channel, FailureText>>

\* The calls of the trace after position i.
CallsAfter(tr, i) == Calls(SubSeq(tr, i + 1, Len(tr)))

\* C8 amended: no handler re-issues a call that failed.  In the
\* source-control and transcript handlers a failed call is the last call of
\* the invocation.  In the chat handler the only call after a failed call is
\* the one failure notice to the originating channel, and none follows a
\* failed failure notice.  In the tracker-comment handler a failed call ends
\* the processing of its mention: the next call, if any, is the user lookup
\* of the next mention.
C8_FailureEndsFlowOrMention ==
    \A i \in 1..Len(flow.trace) :
        FailedCall(flow.trace[i]) =>
            LET later == CallsAfter(flow.trace, i)
            IN  CASE flow.handler \in {"github", "meet"} -> later = <<>>
                  [] flow.handler = "slack" ->
                       IF IsFailureNotice(flow, flow.trace[i])
                       THEN later = <<>>
                       ELSE /\ Len(later) = 1
                            /\ IsFailureNotice(flow, later[1])
                  [] flow.handler = "jira" ->
                       /\ Len(later) > 0 => later[1].op = "getUserDetailsById"
                       /\ Len(SelectSeq(flow.trace,
                                        LAMBDA e : e.op = "getUserDetailsById"))
                            <= Len(flow.loc.mentions)
                  [] OTHER -> FALSE

\* A tracker-comment invocation went on to its second mention after the
\* user lookup of the first one failed.
C8_Witness ==
    /\ flow.handler = "jira"
    /\ flow.pc = "done"
    /\ Len(Calls(flow.trace)) >= 4
    /\ FailedCall(flow.trace[2])

\* C9: in the chat handler, a successful classification is followed by a
\* createTicket call; every createTicket call carries the fixed default
\* project and otherwise the classifier's fields; and every message posted
\* that is not the failure notice goes to the originating channel, directly
\* after a createTicket call that succeeded, and contains the key of the
\* ticket created.
C9_DefaultProjectAndConfirmation ==
    flow.handler = "slack" =>
        \A i \in 1..Len(flow.trace) :
            LET e == flow.trace[i]
            IN  /\ (e.op = "parseBugReport" /\ e.res = "ok") =>
                     /\ i < Len(flow.trace)
                     /\ flow.trace[i + 1].op = "createTicket"
                /\ e.op = "createTicket" =>
                     /\ e.args[1].projectKey = DefaultProject
                     /\ e.args[1] = [flow.loc.parsed EXCEPT !.projectKey = DefaultProject]
                /\ (e.op = "postMessage" /\ ~IsFailureNotice(flow, e)) =>
                     /\ flow.trace[i - 1].op = "createTicket"
                     /\ flow.trace[i - 1].res = "ok"
                     /\ e.args[1] = flow.req.event.channel
                     /\ Includes(e.args[2], flow.loc.ticketKey)

\* The classifier returned another project, the ticket was created and the
\* confirmation was posted.
C9_Witness ==
    /\ flow.handler = "slack"
    /\ flow.pc = "done"
    /\ Len(flow.trace) = 4
    /\ flow.trace[3].op = "createTicket"
    /\ flow.trace[4].op = "postMessage"
    /\ flow.trace[4].res = "ok"
    /\ flow.loc.parsed.projectKey = <<"F","E">>

\* C10: an invocation of the chat handler for an event that carries a bot_id
\* issues no outbound call.
C10_BotEventsIgnored ==
    (/\ flow.handler = "slack"
     /\ flow.req.event # NoObject
     /\ Truthy(flow.req.event.bot_id)) =>
        /\ flow.pc = "done"
        /\ Len(Calls(flow.trace)) = 0

\* The handler's own confirmation came back as a bot message and the
\* invocation ended.
C10_Witness ==
    /\ flow.handler = "slack"
    /\ flow.pc = "done"
    /\ flow.req.event # NoObject
    /\ flow.req.event.type = "message"
    /\ Truthy(flow.req.event.bot_id)
    /\ flow.req.event.text = ConfirmationText(<<"K","A","N","-","7">>, <<"s","u","m">>)
    /\ MentionsBug(flow.req.event.text)

\* A validly signed event for a closed and merged pull request, from which
\* a ticket key is extracted.
IsSignedMergedPullRequest(f) ==
    /\ f.handler = "github"
    /\ f.req.signature = DigestOf(GITHUB_WEBHOOK_SECRET, f.req.rawBody)
    /\ f.req.eventType = "pull_request"
    /\ f.req.body.action = <<"c","l","o","s","e","d">>
    /\ f.req.body.pull_request # NoObject
    /\ f.req.body.pull_request.merged
    /\ ~KeyTextThrows(f.req.body)
    /\ Truthy(ExtractJiraKey(KeyText(f.req.body)))

\* C11: for a validly signed merged pull-request-closed event with extracted
\* key K, the calls of the invocation are a prefix of: transition of K to
\* "Done", comment on K containing the pull-request URL, post to the support
\* channel; every call but the last one issued has succeeded; and an
\* invocation that ended without a failure has issued all three.
C11_DoneCommentNoticeInOrder ==
    IsSignedMergedPullRequest(flow) =>
        LET K     == ExtractJiraKey(KeyText(flow.req.body))
            url   == flow.req.body.pull_request.html_url
            calls == Calls(flow.trace)
            n     == Len(calls)
        IN  /\ n <= 3
            /\ n >= 1 => /\ calls[1].op = "updateTicketStatus"
                         /\ calls[1].args = <<K, Done>>
            /\ n >= 2 => /\ calls[2].op = "addComment"
                         /\ calls[2].args[1] = K
                         /\ Includes(calls[2].args[2], url)
            /\ n >= 3 => /\ calls[3].op = "postMessage"
                         /\ calls[3].args[1] = SupportChannelId
                         /\ Includes(calls[3].args[2], K)
            /\ \A i \in 1..(n - 1) : calls[i].res = "ok"
            /\ (flow.pc = "done" /\ \A i \in 1..n : calls[i].res = "ok") => n = 3
            /\ flow.pc # "unhandled"

\* The three calls were made and succeeded.
C11_Witness ==
    /\ IsSignedMergedPullRequest(flow)
    /\ flow.pc = "done"
    /\ Len(Calls(flow.trace)) = 3
    /\ \A i \in 1..3 : Calls(flow.trace)[i].res = "ok"

\* The three candidate fields of a payload, absent ones as empty text.
CandidateFields(payload) ==
    << OrEmpty(payload.ref),
       IF payload.pull_request = NoObject THEN <<>>
       ELSE OrEmpty(payload.pull_request.head.ref),
       IF payload.pull_request = NoObject THEN <<>>
       ELSE OrEmpty(payload.pull_request.title) >>

Permutations3 ==
    { <<1, 2, 3>>, <<1, 3, 2>>, <<2, 1, 3>>, <<2, 3, 1>>, <<3, 1, 2>>, <<3, 2, 1>> }

\* C12: for a payload in which exactly one of the three candidate fields
\* contains a match, the key extracted from the joined text is the match of
\* that field, it is the same for every order in which the fields are joined,
\* extracting from the key gives the key, and it is the key every tracker
\* call of the invocation is made for.
C12_KeyFromWhicheverField ==
    (flow.handler = "github" /\ ~KeyTextThrows(flow.req.body)) =>
        LET fields  == CandidateFields(flow.req.body)
            holders == { k \in 1..3 : Truthy(ExtractJiraKey(fields[k])) }
        IN  Cardinality(holders) = 1 =>
              LET k == CHOOSE h \in holders : TRUE
                  K == ExtractJiraKey(fields[k])
              IN  /\ ExtractJiraKey(KeyText(flow.req.body)) = K
                  /\ \A p \in Permutations3 :
                       ExtractJiraKey(fields[p[1]] \o <<" ">> \o fields[p[2]]
                                        \o <<" ">> \o fields[p[3]]) = K
                  /\ ExtractJiraKey(K) = K
                  /\ Includes(fields[k], K)
                  /\ \A i \in 1..Len(flow.trace) :
                       flow.trace[i].op \in {"updateTicketStatus", "addComment"}
                         => flow.trace[i].args[1] = K

\* The key came from the pull-request title alone and the ticket was
\* transitioned for it.
C12_Witness ==
    /\ flow.handler = "github"
    /\ ~KeyTextThrows(flow.req.body)
    /\ ~Truthy(ExtractJiraKey(CandidateFields(flow.req.body)[1]))
    /\ ~Truthy(ExtractJiraKey(CandidateFields(flow.req.body)[2]))
    /\ ExtractJiraKey(CandidateFields(flow.req.body)[3]) = <<"X","Y","-","9">>
    /\ Len(flow.trace) >= 2
    /\ flow.trace[2].op = "updateTicketStatus"
    /\ flow.trace[2].args[1] = <<"X","Y","-","9">>

ClassifierCalls(tr) == SelectSeq(tr, LAMBDA e : e.op = "analyzeTranscript")

\* C13: an invocation of the transcript handler for a request that carries a
\* transcript has called the classifier exactly once, as its first call, and
\* an invocation for a request without one has not called it; when the
\* classifier returned a confidence other than "high", the classifier call
\* is the only outbound call of the invocation, whatever the intent and the
\* details.
C13_ClassifiedOnceLowConfidenceNoop ==
    flow.handler = "meet" =>
        /\ Len(ClassifierCalls(flow.trace)) =
             (IF Truthy(flow.req.transcript) THEN 1 ELSE 0)
        /\ Truthy(flow.req.transcript) =>
             Calls(flow.trace)[1].op = "analyzeTranscript"
        /\ (flow.loc # NoObject /\ flow.loc.analysis.confidence # "high") =>
             /\ flow.pc = "done"
             /\ Len(Calls(flow.trace)) = 1

\* The classifier returned PAUSE_ISSUE with key and reason at medium
\* confidence and the invocation ended.
C13_Witness ==
    /\ flow.handler = "meet"
    /\ flow.pc = "done"
    /\ flow.loc # NoObject
    /\ flow.loc.analysis.confidence = "medium"
    /\ flow.loc.analysis.intent = "PAUSE_ISSUE"
    /\ Truthy(flow.loc.analysis.details.ticketKey)
    /\ Truthy(flow.loc.analysis.details.reason)

\* The details the intent of an analysis requires are all present.
HasRequiredDetails(analysis) ==
    LET d == analysis.details
    IN  CASE analysis.intent = "CREATE_ISSUE" ->
               Truthy(d.summary) /\ Truthy(d.description) /\ Truthy(d.issueType)
          [] analysis.intent = "ADD_COMMENT" ->
               Truthy(d.searchQuery) /\ Truthy(d.comment)
          [] analysis.intent = "PAUSE_ISSUE" ->
               Truthy(d.ticketKey) /\ Truthy(d.reason)
          [] OTHER -> TRUE

\* C14: every analysis that analyzeTranscript returned to the transcript
\* handler carries the details its intent requires; in particular an
\* analysis with intent PAUSE_ISSUE carries a ticketKey.
C14_ReturnsOnlyCompleteAnalyses ==
    (flow.handler = "meet" /\ flow.loc # NoObject) =>
        HasRequiredDetails(flow.loc.analysis)

\* The model's response is unusable: no response, not JSON, or one of the
\* four fields absent.
IncompleteBugReport(reply) ==
    \/ ~reply.ok
    \/ ~reply.parses
    \/ reply.json.summary = Undefined
    \/ reply.json.description = Undefined
    \/ reply.json.projectKey = Undefined
    \/ reply.json.issueType = Undefined

JobStepAllowed(j) ==
    LET a == jobs[j]
        b == jobs'[j]
    IN  /\ b.ticketKey = a.ticketKey
        /\ b.author = a.author
        /\ CASE a.pc = "pending"  ->
                  \/ b.pc = "pending" /\ b.remaining \in {a.remaining, a.remaining - 1}
                  \/ b.pc = "job:read" /\ a.remaining = 0
             [] a.pc = "job:read" -> b.pc \in {"job:read", "job:post", "done"}
             [] a.pc = "job:post" -> b.pc \in {"job:post", "done"}
             [] OTHER             -> b = a

\* No job is removed or cancelled; each moves pending -> fired -> ended, and
\* leaves pending only when its delay has run out; a new job starts pending
\* with the whole delay ahead.
JobsStep ==
    /\ Len(jobs') >= Len(jobs)
    /\ \A j \in 1..Len(jobs) : JobStepAllowed(j)
    /\ \A j \in (Len(jobs) + 1)..Len(jobs') :
         /\ jobs'[j].pc = "pending"
         /\ jobs'[j].remaining = FOUR_HOURS_IN_MS

\* C16: every step of the system leaves each registered job in place and
\* moves it only along pending -> fired -> ended, out of pending only when
\* its delay has elapsed, and never back; and every registered job
\* eventually ends.
C16_JobLifeCycle ==
    /\ [][JobsStep]_vars
    /\ \A j \in 1..MaxJobs : (Len(jobs) >= j) ~> (Len(jobs) >= j /\ jobs[j].pc = "done")

\* One job has fired and ended while a job registered later is still waiting.
C16_Witness ==
    /\ Len(jobs) = 2
    /\ jobs[1].pc = "done"
    /\ jobs[1].current # Undefined
    /\ jobs[2].pc = "pending"
    /\ jobs[2].remaining > 0

\* The status re-read of a job has failed.
ReadFailed(job) ==
    /\ Len(job.trace) >= 1
    /\ job.trace[1].op = "jiraApiClient.get"
    /\ job.trace[1].res = "fail"

\* C17: a job whose status re-read failed has ended, having logged the
\* failure and issued no postMessage; and the step in which a re-read fails
\* changes no other job.
C17_FailedReadIsSilent ==
    /\ [](\A j \in 1..Len(jobs) :
            ReadFailed(jobs[j]) =>
              /\ jobs[j].pc = "done"
              /\ Len(jobs[j].trace) = 2
              /\ jobs[j].trace[2].op = "console.error"
              /\ Len(Posts(jobs[j].trace)) = 0)
    /\ [][\A j \in 1..Len(jobs) :
            (~ReadFailed(jobs[j]) /\ ReadFailed(jobs'[j])) =>
              /\ Len(jobs') = Len(jobs)
              /\ \A k \in 1..Len(jobs) : k # j => jobs'[k] = jobs[k]]_vars

\* The re-read of the first job failed; the second job, pending at the time,
\* went on to fire and to escalate.
C17_Witness ==
    /\ Len(jobs) = 2
    /\ ReadFailed(jobs[1])
    /\ jobs[2].pc = "done"
    /\ jobs[2].current = jobs[2].ticketStatus
    /\ Len(Posts(jobs[2].trace)) = 1

\* One step, as far as the baselines of the jobs go: a registered job keeps
\* its baseline; a job being registered takes the status carried by the
\* event of the invocation that registers it; a job whose re-read returns
\* goes on to post exactly when the status read equals its baseline.
BaselineStep ==
    /\ \A j \in 1..Len(jobs) :
         /\ jobs'[j].ticketStatus = jobs[j].ticketStatus
         /\ (jobs[j].pc = "job:read" /\ jobs'[j].current # Undefined) =>
              (jobs'[j].pc = "job:post" <=> jobs'[j].current = jobs[j].ticketStatus)
    /\ \A j \in (Len(jobs) + 1)..Len(jobs') :
         /\ flow.handler = "jira"
         /\ jobs'[j].ticketStatus = flow.req.issue.status

\* C18: the baseline of a job is the status carried by the comment event
\* that registered it, no step changes it afterwards, and the job escalates
\* exactly when the status read at fire time is equal to it.
C18_BaselineFixedAtRegistration == [][BaselineStep]_vars

\* Two jobs registered by events that carried different statuses; the first
\* has fired and found the status equal to its own baseline.
C18_Witness ==
    /\ Len(jobs) = 2
    /\ jobs[1].ticketStatus # jobs[2].ticketStatus
    /\ jobs[1].pc = "done"
    /\ jobs[1].current = jobs[1].ticketStatus
    /\ jobs[2].pc = "pending"

\* The issue types a bug report may carry.
BugReportIssueTypes ==
    { <<"E","p","i","c">>, <<"F","e","a","t","u","r","e">>, <<"T","a","s","k">> }

\* C19: every createTicket call of the chat handler carries an issueType
\* that is one of Epic, Feature, Task.
C19_TicketIssueTypeInSet ==
    flow.handler = "slack" =>
        \A i \in 1..Len(flow.trace) :
            flow.trace[i].op = "createTicket" =>
                flow.trace[i].args[1].issueType \in BugReportIssueTypes

\* A step registers a job only as the continuation of an alert that was
\* sent: the call that settles in the step is the chat.postMessage of the
\* mention being processed, and it succeeded.
RegistersOnlyAfterAlert ==
    Len(jobs') > Len(jobs) =>
        /\ Len(jobs') = Len(jobs) + 1
        /\ flow.handler = "jira"
        /\ flow.trace[Len(flow.trace)].op = "chat.postMessage"
        /\ flow'.trace[Len(flow.trace)].res = "ok"

\* C21: every step of the tracker-comment handler that registers a job
\* follows a successful alert call for the mention being processed; no job
\* is registered for an account without address, for an address the chat
\* platform does not know, or after a failed alert call.
C21_JobOnlyAfterAlertSent == [][RegistersOnlyAfterAlert]_vars

ValidlySigned(req) == req.signature = DigestOf(GITHUB_WEBHOOK_SECRET, req.rawBody)

\* The event is the creation of a branch.
BranchCreated(req) == req.eventType = "create" /\ req.body.ref_type = "branch"

\* The event is the closing of a pull request that was merged.
MergedPullRequestClosed(req) ==
    /\ req.eventType = "pull_request"
    /\ req.body.action = <<"c","l","o","s","e","d">>
    /\ req.body.pull_request # NoObject
    /\ req.body.pull_request.merged

\* A ticket key is extracted from the event.
KeyExtracted(req) ==
    ~KeyTextThrows(req.body) /\ Truthy(ExtractJiraKey(KeyText(req.body)))

\* C22: in the source-control handler a transition to "In Progress" is
\* requested only for a validly signed branch-creation event and a
\* transition to "Done" only for a validly signed closed and merged pull
\* request; an invocation for an event that is neither, or from which no key
\* is extracted, makes no outbound call.
C22_TransitionsOnlyForTheirEvents ==
    flow.handler = "github" =>
        /\ \A i \in 1..Len(flow.trace) :
             flow.trace[i].op = "updateTicketStatus" =>
               /\ ValidlySigned(flow.req)
               /\ KeyExtracted(flow.req)
               /\ flow.trace[i].args[2] \in {InProgress, Done}
               /\ flow.trace[i].args[2] = InProgress => BranchCreated(flow.req)
               /\ flow.trace[i].args[2] = Done => MergedPullRequestClosed(flow.req)
        /\ (\/ ~KeyExtracted(flow.req)
            \/ ~(BranchCreated(flow.req) \/ MergedPullRequestClosed(flow.req)))
             => Len(Calls(flow.trace)) = 0

\* The validly signed creation of a tag named after a ticket was accepted
\* and caused no call.
C22_Witness ==
    /\ flow.handler = "github"
    /\ ValidlySigned(flow.req)
    /\ flow.req.eventType = "create"
    /\ flow.req.body.ref_type = "tag"
    /\ KeyExtracted(flow.req)
    /\ flow.pc = "done"
    /\ AckedWith(flow, 202)

\* The classifier returned ADD_COMMENT at high confidence with a search
\* query and a comment.
IsAddComment(f) ==
    /\ f.handler = "meet"
    /\ f.loc # NoObject
    /\ f.loc.analysis.confidence = "high"
    /\ f.loc.analysis.intent = "ADD_COMMENT"
    /\ Truthy(f.loc.analysis.details.searchQuery)
    /\ Truthy(f.loc.analysis.details.comment)

\* C23: for ADD_COMMENT at high confidence, the calls after the classifier
\* are a prefix of: search, comment, confirmation.  After a search that
\* returned no issue there is no further call.  After one that returned
\* issues, the comment is for the first issue returned and carries the
\* classifier's comment, and the confirmation is issued only after the
\* comment call succeeded and goes to the update channel.
C23_CommentOnTopResultThenConfirm ==
    IsAddComment(flow) =>
        LET calls == Calls(flow.trace)
            n     == Len(calls)
        IN  /\ n >= 2 /\ n <= 4
            /\ calls[2].op = "searchJiraIssues"
            /\ calls[2].args = <<flow.loc.analysis.details.searchQuery>>
            /\ n >= 3 =>
                 /\ calls[2].res = "ok"
                 /\ Len(flow.loc.issues) > 0
                 /\ calls[3].op = "addComment"
                 /\ calls[3].args[1] = flow.loc.issues[1].key
                 /\ Includes(calls[3].args[2], flow.loc.analysis.details.comment)
            /\ n = 4 =>
                 /\ calls[3].res = "ok"
                 /\ calls[4].op = "postMessage"
                 /\ calls[4].args[1] = UpdateChannelId
            /\ (calls[2].res = "ok" /\ Len(flow.loc.issues) = 0) =>
                 /\ n = 2
                 /\ flow.pc = "done"
            /\ (flow.pc = "done" /\ (\A i \in 1..n : calls[i].res = "ok")
                  /\ Len(flow.loc.issues) > 0) => n = 4

\* The search returned two issues, the comment went to the first and the
\* confirmation was posted.
C23_Witness ==
    /\ IsAddComment(flow)
    /\ flow.pc = "done"
    /\ Len(Calls(flow.trace)) = 4
    /\ Len(flow.loc.issues) = 2
    /\ flow.loc.issues[1].key = FoundKey2
    /\ Calls(flow.trace)[3].args[1] = FoundKey2
    /\ Calls(flow.trace)[4].res = "ok"

\* The classifier returned PAUSE_ISSUE at high confidence.
IsPauseIssue(f) ==
    /\ f.handler = "meet"
    /\ f.loc # NoObject
    /\ f.loc.analysis.confidence = "high"
    /\ f.loc.analysis.intent = "PAUSE_ISSUE"

\* C24: for PAUSE_ISSUE at high confidence, without ticketKey or without
\* reason the classifier call is the only call.  With both, the calls after
\* the classifier are a prefix of: reason comment on the ticket, assignee
\* lookup for the ticket, chat lookup of the assignee's address, direct
\* message to the user found; each is issued only after the one before
\* succeeded, so that after a failed assignee lookup, chat lookup or message
\* nothing follows and the comment call stays the successful one it was.
C24_CommentThenAssigneeThenNotify ==
    IsPauseIssue(flow) =>
        LET d     == flow.loc.analysis.details
            calls == Calls(flow.trace)
            n     == Len(calls)
        IN  IF ~(Truthy(d.ticketKey) /\ Truthy(d.reason))
            THEN n = 1 /\ flow.pc = "done"
            ELSE /\ n >= 2 /\ n <= 5
                 /\ calls[2].op = "addComment"
                 /\ calls[2].args[1] = d.ticketKey
                 /\ Includes(calls[2].args[2], d.reason)
                 /\ n >= 3 => /\ calls[3].op = "getTicketAssignee"
                              /\ calls[3].args = <<d.ticketKey>>
                 /\ n >= 4 => /\ calls[4].op = "users.lookupByEmail"
                              /\ Truthy(calls[4].args[1])
                 /\ n >= 5 => /\ calls[5].op = "chat.postMessage"
                              /\ calls[5].args[1] = SlackIdOf(calls[4].args[1])
                 /\ \A i \in 1..(n - 1) : calls[i].res = "ok"
                 /\ Len(Responses(flow.trace)) = 1

\* The comment was appended, the assignee found, and the direct message
\* failed: the invocation ended there.
C24_Witness ==
    /\ IsPauseIssue(flow)
    /\ flow.pc = "done"
    /\ Len(Calls(flow.trace)) = 5
    /\ Calls(flow.trace)[2].res = "ok"
    /\ Calls(flow.trace)[5].res = "fail"

\* A job that is due, or whose awaited call is outstanding, can take its
\* next step whatever the other jobs and the handler are doing.
NeverBlocked ==
    \A j \in 1..Len(jobs) :
        /\ (jobs[j].pc = "pending" /\ jobs[j].remaining = 0) => ENABLED JobFires(j)
        /\ jobs[j].pc = "job:read" => ENABLED JobReadReturns(j)
        /\ jobs[j].pc = "job:post" => ENABLED JobPostReturns(j)

\* What the calls of a job are about: its own ticket.
OwnCallsOnly(job) ==
    \A i \in 1..Len(job.trace) :
        /\ job.trace[i].op = "jiraApiClient.get" => job.trace[i].args = <<job.ticketKey>>
        /\ job.trace[i].op = "postMessage" =>
             /\ Includes(job.trace[i].args[2], job.ticketKey)
             /\ Includes(job.trace[i].args[2], job.ticketStatus)

\* One step, as far as the independence of the jobs goes.
IndependentStep ==
    /\ Len(jobs') >= Len(jobs)
    /\ \A j \in 1..Len(jobs) :
         /\ flow' # flow => jobs'[j] = jobs[j]
         /\ jobs'[j].pc # jobs[j].pc =>
              /\ flow' = flow
              /\ Len(jobs') = Len(jobs)
              /\ \A k \in 1..Len(jobs) : k # j => jobs'[k] = jobs[k]
              /\ OwnCallsOnly(jobs'[j])
              /\ jobs[j].pc = "job:read" =>
                   jobs'[j].pc = (IF jobs'[j].current = Undefined THEN "done"
                                  ELSE IF jobs'[j].current = jobs[j].ticketStatus
                                       THEN "job:post" ELSE "done")
         /\ jobs'[j].remaining # jobs[j].remaining =>
              /\ jobs'[j] = [jobs[j] EXCEPT !.remaining = @ - 1]
              /\ \A k \in 1..Len(jobs) :
                   (jobs[k].pc = "pending" /\ jobs[k].remaining > 0)
                     => jobs'[k].remaining = jobs[k].remaining - 1

\* C25: with jobs pending for the same or for different tickets and handler
\* invocations in between, a step of one job changes no other job and not
\* the handler, a step of the handler changes no registered job, time passes
\* alike for all pending jobs, the calls of a job are about its own ticket,
\* its outcome follows from its own baseline and the status it read, and a
\* job that is due is never kept from its next step.
C25_JobsIndependent == []NeverBlocked /\ [][IndependentStep]_vars

\* The job for one ticket is waiting for its re-read while the re-read of a
\* job for another ticket, registered with another baseline, has failed.
C25_Witness ==
    /\ Len(jobs) = 2
    /\ jobs[1].ticketKey # jobs[2].ticketKey
    /\ jobs[1].ticketStatus # jobs[2].ticketStatus
    /\ jobs[1].pc = "job:read"
    /\ ReadFailed(jobs[2])

\* C26: in an invocation of the chat handler whose createTicket call
\* succeeded, no failure notice is posted.
C26_NoFailureNoticeAfterTicket ==
    (flow.handler = "slack"
       /\ \E i \in 1..Len(flow.trace) :
            flow.trace[i].op = "createTicket" /\ flow.trace[i].res = "ok") =>
        \A i \in 1..Len(flow.trace) :
            flow.trace[i].op = "postMessage" => ~IsFailureNotice(flow, flow.trace[i])

\* C27: an invocation in which an outbound call made after the
\* acknowledgment has failed does not end in an uncaught rejection.
C27_DownstreamFailuresCaught ==
    (flow.handler # "none"
       /\ \E i \in 1..Len(flow.trace) : FailedCall(flow.trace[i])) =>
        flow.pc # "unhandled"

====
